---------------------------- MODULE Spec2Model ----------------------------
(***************************************************************************)
(* Scenario simulation engine of the crude-oil forecaster                  *)
(* (scenario_engine.py), its impact formatter (utils.py), the /simulate    *)
(* and /simulate-direct handlers (app.py) and the magnitude scaling of the *)
(* interactive loop (test.py).                                             *)
(*                                                                         *)
(* Numbers.  Python floats are modelled in fixed point:                    *)
(*   - a driver value or a shock is an integer count of 0.001/Unit, so the *)
(*     catalog's -0.05 is -50 * Unit;                                      *)
(*   - a magnitude modifier is an integer count of halves, so 0.5 is 1,    *)
(*     1.0 is 2, 1.5 is 3 and 2.0 is 4;                                    *)
(*   - a price is an integer count of 0.001 USD (a mill); a value rounded  *)
(*     to two decimals is an integer count of cents; a percentage rounded  *)
(*     to two decimals is an integer count of 0.01 %.                      *)
(***************************************************************************)
EXTENDS Integers, Sequences, FiniteSets, TLC

VARIABLES SCENARIOS, latest, req, started, eng, prevEng, scl, bld, fmt, loop

vars == <<SCENARIOS, latest, req, started, eng, prevEng, scl, bld, fmt, loop>>

---------------------------------------------------------------------------
(* Bounds of the model *)

\* number of HTTP requests the server is sent; in Spec each has a worker
\* thread of its own, so all of them may overlap
NumRequests == 2
\* largest forecast horizon a caller asks for
MaxWeeks == 2

\* A shock is scaled at most once per request, each time by a multiple of
\* one half: with Unit = 2^NumRequests every product stays an integer.
Unit == 2 ^ NumRequests

---------------------------------------------------------------------------
(* Scenario catalog and baseline snapshot *)

exog_cols == <<"dollar_return", "indpro_return", "inventory_pct",
               "fed_funds_diff", "vix_diff">>

Drivers == {exog_cols[i] : i \in 1..Len(exog_cols)}

Shocks(dollar, indpro, inventory, fed, vix) ==
    [dollar_return  |-> dollar * Unit,
     indpro_return  |-> indpro * Unit,
     inventory_pct  |-> inventory * Unit,
     fed_funds_diff |-> fed * Unit,
     vix_diff       |-> vix * Unit]

\* SCENARIOS as the module defines it (only the 'shocks' of each entry
\* ever change; 'name' and 'description' are left out)
SCENARIOS_DEF ==
    [opec_cut             |-> [shocks |-> Shocks(-2, 0, -50, 0, -2000)],
     global_recession     |-> [shocks |-> Shocks(5, -20, 30, 0, 8000)],
     rate_hike            |-> [shocks |-> Shocks(8, -5, 0, 750, 3000)],
     geopolitical_tension |-> [shocks |-> Shocks(3, 0, -80, 0, 12000)],
     demand_boom          |-> [shocks |-> Shocks(-3, 15, -40, 0, -3000)]]

ScenarioKeys == DOMAIN SCENARIOS_DEF

\* the values get_latest_values reads from the data files at start-up
\* (the files are not part of the sources: one fixed snapshot)
LatestAtStartup ==
    [brent_price    |-> 75000,
     dollar_return  |-> 1 * Unit,
     indpro_return  |-> 2 * Unit,
     inventory_pct  |-> (-10) * Unit,
     fed_funds_diff |-> 0,
     vix_diff       |-> 500 * Unit]

---------------------------------------------------------------------------
(* Arithmetic helpers *)

\* n / d rounded to the nearest integer, ties to even, d > 0: the rounding
\* of an exact decimal
RoundDiv(n, d) ==
    LET q == n \div d
        r == n % d
    IN  IF 2 * r < d THEN q
        ELSE IF 2 * r > d THEN q + 1
        ELSE IF q % 2 = 0 THEN q ELSE q + 1

Abs(n) == IF n < 0 THEN 0 - n ELSE n

\* the modifier applied twice
Times_twice(v, modifier) == (v * modifier * modifier) \div 4

\* v * modifier, the modifier counted in halves
Times(v, modifier) == (v * modifier) \div 2

---------------------------------------------------------------------------
(* Binary floating point.  The prices are IEEE 754 doubles: a price of m   *)
(* mills is the double nearest to m / 1000, and round(), the f-string      *)
(* formats and the arithmetic of utils.format_price_change work on that    *)
(* double.  A natural number is held as the list of its digits in base     *)
(* Limb, lowest first; a double as sign, mantissa and exponent, its value  *)
(* being man * 2^exp.                                                      *)

\* 2^15: the product of two digits stays below 2^31
Limb == 32768

RECURSIVE ToLimbs(_)
ToLimbs(n) == IF n = 0 THEN <<>> ELSE <<n % Limb>> \o ToLimbs(n \div Limb)

RECURSIVE FromLimbs(_)
FromLimbs(a) == IF a = <<>> THEN 0 ELSE a[1] + Limb * FromLimbs(Tail(a))

Digit(a, i) == IF i >= 1 /\ i <= Len(a) THEN a[i] ELSE 0

\* without the zeros at the high end
RECURSIVE Trim(_)
Trim(a) ==
    IF a = <<>> \/ a[Len(a)] # 0 THEN a ELSE Trim(SubSeq(a, 1, Len(a) - 1))

RECURSIVE AddFrom(_, _, _, _)
AddFrom(a, b, i, carry) ==
    IF i > Len(a) /\ i > Len(b)
    THEN IF carry = 0 THEN <<>> ELSE <<carry>>
    ELSE LET t == Digit(a, i) + Digit(b, i) + carry
         IN  <<t % Limb>> \o AddFrom(a, b, i + 1, t \div Limb)

AddLimbs(a, b) == AddFrom(a, b, 1, 0)

\* a - b for a >= b
RECURSIVE SubFrom(_, _, _, _)
SubFrom(a, b, i, borrow) ==
    IF i > Len(a) THEN <<>>
    ELSE LET t == Digit(a, i) - Digit(b, i) - borrow
         IN  <<(t + Limb) % Limb>>
                \o SubFrom(a, b, i + 1, IF t < 0 THEN 1 ELSE 0)

SubLimbs(a, b) == Trim(SubFrom(a, b, 1, 0))

\* a < b, from digit i down
RECURSIVE LessFrom(_, _, _)
LessFrom(a, b, i) ==
    IF i = 0 THEN FALSE
    ELSE IF Digit(a, i) # Digit(b, i) THEN Digit(a, i) < Digit(b, i)
    ELSE LessFrom(a, b, i - 1)

LessLimbs(a, b) ==
    LessFrom(a, b, IF Len(a) > Len(b) THEN Len(a) ELSE Len(b))

\* a * k for k <= Limb
RECURSIVE MulFrom(_, _, _, _)
MulFrom(a, k, i, carry) ==
    IF i > Len(a) THEN IF carry = 0 THEN <<>> ELSE <<carry>>
    ELSE LET t == a[i] * k + carry
         IN  <<t % Limb>> \o MulFrom(a, k, i + 1, t \div Limb)

MulSmall(a, k) == Trim(MulFrom(a, k, 1, 0))

\* quotient and remainder of the digits 1..i of a by d <= Limb, rem being
\* what the digits above i have left
RECURSIVE DivSmallFrom(_, _, _, _)
DivSmallFrom(a, i, rem, d) ==
    IF i = 0 THEN [q |-> <<>>, r |-> rem]
    ELSE LET cur  == rem * Limb + a[i]
             rest == DivSmallFrom(a, i - 1, cur % d, d)
         IN  [q |-> rest.q \o <<cur \div d>>, r |-> rest.r]

TrimQuotient(out) == [q |-> Trim(out.q), r |-> out.r]

DivSmall(a, d) == TrimQuotient(DivSmallFrom(a, Len(a), 0, d))

\* a * 2^k
ShiftLeft(a, k) ==
    IF a = <<>> THEN <<>>
    ELSE [i \in 1..(k \div 15) |-> 0] \o MulSmall(a, 2 ^ (k % 15))

\* a \div 2^k
ShiftRight(a, k) ==
    DivSmall(SubSeq(a, (k \div 15) + 1, Len(a)), 2 ^ (k % 15)).q

\* the number of binary digits of a digit other than 0
TopBits(top) == CHOOSE n \in 1..15 : 2 ^ (n - 1) <= top /\ top < 2 ^ n

\* the number of binary digits of t, which has no zeros at the high end
BitLenTrimmed(t) ==
    IF t = <<>> THEN 0 ELSE 15 * (Len(t) - 1) + TopBits(t[Len(t)])

BitLen(a) == BitLenTrimmed(Trim(a))

\* q or q + 1: rest is what q leaves of the dividend, half is half the
\* divisor; a half goes to the even neighbour, unless the dividend stands
\* for a number a little above it (more)
RoundHalf(q, rest, half, more) ==
    IF \/ LessLimbs(half, rest)
       \/ rest = half /\ (more \/ Digit(q, 1) % 2 = 1)
    THEN AddLimbs(q, <<1>>) ELSE q

RoundQuotient(a, k, more, q) ==
    RoundHalf(q, SubLimbs(a, ShiftLeft(q, k)), ShiftLeft(<<1>>, k - 1), more)

\* a / 2^k as the nearest whole number
RoundShift(a, k, more) ==
    IF k <= 0 THEN ShiftLeft(Trim(a), 0 - k)
    ELSE RoundQuotient(a, k, more, ShiftRight(a, k))

\* a digit of a quotient, guessed from the two highest digits of what is
\* left (cur) and the highest digit of the divisor d, which is at least
\* Limb / 2: the guess is at most 2 too many
GuessDigit(cur, d) ==
    (Digit(cur, Len(d) + 1) * Limb + Digit(cur, Len(d))) \div d[Len(d)]

QuotientDigit(cur, d, top) ==
    CHOOSE c \in 0..top :
        /\ c >= top - 2
        /\ ~LessLimbs(cur, MulSmall(d, c))
        /\ c = top \/ LessLimbs(cur, MulSmall(d, c + 1))

AppendDigit(rest, digit) == [q |-> rest.q \o <<digit>>, r |-> rest.r]

\* quotient and remainder of the digits 1..i of a by a d of several digits,
\* rem being what the digits above i have left
RECURSIVE DivLimbsFrom(_, _, _, _)
RECURSIVE DivLeft(_, _, _, _, _)
RECURSIVE DivDigit(_, _, _, _, _)
RECURSIVE DivCurrent(_, _, _, _)

\* left: what the digit leaves of cur, less than d
DivLeft(a, i, d, digit, left) ==
    CASE LessLimbs(left, d) ->
         AppendDigit(DivLimbsFrom(a, i - 1, left, d), digit)

DivDigit(a, i, d, cur, digit) ==
    DivLeft(a, i, d, digit, SubLimbs(cur, MulSmall(d, digit)))

DivCurrent(a, i, d, cur) ==
    DivDigit(a, i, d, cur,
             QuotientDigit(cur, d, IF GuessDigit(cur, d) > Limb - 1
                                   THEN Limb - 1 ELSE GuessDigit(cur, d)))

DivLimbsFrom(a, i, rem, d) ==
    IF i = 0 THEN [q |-> <<>>, r |-> rem]
    ELSE DivCurrent(a, i, d, Trim(<<a[i]>> \o rem))

DivLimbs(a, d) == DivLimbsFrom(a, Len(a), <<>>, d)

FloatZero == [neg |-> FALSE, man |-> <<>>, exp |-> 0]

\* the double nearest to +-man * 2^exp, man having k binary digits more
\* than the 53 a double keeps
RoundToBits(neg, man, exp, more, k) ==
    IF man = <<>> THEN FloatZero
    ELSE IF k <= 0 THEN [neg |-> neg, man |-> man, exp |-> exp]
    ELSE [neg |-> neg, man |-> RoundShift(man, k, more), exp |-> exp + k]

RoundTrimmed(neg, man, exp, more) ==
    RoundToBits(neg, man, exp, more, BitLenTrimmed(man) - 53)

\* the double nearest to an exact result
RoundToDouble(exact) ==
    RoundTrimmed(exact.neg, Trim(exact.man), exact.exp, exact.more)

\* the expressions of format_price_change, to be worked out in doubles
FloatOf(mills) == [op |-> "float", mills |-> mills]
Minus(x, y) == [op |-> "-", x |-> x, y |-> y]
Over(x, y) == [op |-> "/", x |-> x, y |-> y]
TimesWhole(x, k) == [op |-> "*", x |-> x, k |-> k]

\* mills / 1000 to 64 binary places
ExactOfQuotient(neg, d) ==
    [neg |-> neg, man |-> d.q, exp |-> -64, more |-> d.r # 0]

ExactOfMills(mills) ==
    ExactOfQuotient(mills < 0,
                    DivSmall(ShiftLeft(ToLimbs(Abs(mills)), 64), 1000))

\* +-a * 2^e minus +-b * 2^e
SubAligned(xneg, yneg, a, b, e) ==
    [neg  |-> IF xneg # yneg THEN xneg
              ELSE IF LessLimbs(a, b) THEN ~xneg ELSE xneg,
     man  |-> IF xneg # yneg THEN AddLimbs(a, b)
              ELSE IF LessLimbs(a, b) THEN SubLimbs(b, a)
              ELSE SubLimbs(a, b),
     exp  |-> e,
     more |-> FALSE]

SubAt(x, y, e) ==
    SubAligned(x.neg, y.neg, ShiftLeft(x.man, x.exp - e),
               ShiftLeft(y.man, y.exp - e), e)

\* x - y
ExactSub(x, y) == SubAt(x, y, IF x.exp < y.exp THEN x.exp ELSE y.exp)

ExactOfDivision(neg, d, exp) ==
    [neg |-> neg, man |-> Trim(d.q), exp |-> exp, more |-> d.r # <<>>]

\* x / y, the mantissas shifted by sa and sb to 60 binary digits, which is
\* four whole digits here: 60 digits of the quotient are taken, or 61
DivShifted(x, y, sa, sb) ==
    ExactOfDivision(x.neg # y.neg,
                    DivLimbs(<<0, 0, 0, 0>> \o ShiftLeft(x.man, sa),
                             ShiftLeft(y.man, sb)),
                    x.exp - y.exp - sa + sb - 60)

\* x / y for y # 0
ExactDiv(x, y) ==
    IF x.man = <<>> THEN [neg |-> FALSE, man |-> <<>>, exp |-> 0, more |-> FALSE]
    ELSE DivShifted(x, y, 60 - BitLen(x.man), 60 - BitLen(y.man))

\* x * k for a small whole k
ExactTimes(x, k) ==
    [neg |-> x.neg, man |-> MulSmall(x.man, k), exp |-> x.exp, more |-> FALSE]

\* the double an expression evaluates to: every operation gives the double
\* nearest to its exact result
RECURSIVE Float(_)
Float(term) ==
    RoundToDouble(CASE term.op = "float" -> ExactOfMills(term.mills)
                    [] term.op = "-" -> ExactSub(Float(term.x), Float(term.y))
                    [] term.op = "/" -> ExactDiv(Float(term.x), Float(term.y))
                    [] term.op = "*" -> ExactTimes(Float(term.x), term.k))

Signed(neg, abs) == IF neg THEN 0 - abs ELSE abs

\* the whole number nearest to x * scale, the product taken exactly and a
\* half going to the even neighbour
NearestWhole(x, scale) ==
    Signed(x.neg,
           FromLimbs(RoundShift(MulSmall(x.man, scale), 0 - x.exp, FALSE)))

\* round(x, places) and the format {x:.<places>f} of the value of term, in
\* units of the last place.  float.__round__ and the format round the
\* exact value of the double correctly; numpy.float64.__round__ is
\* rint(x * 100) / 100, the product being a double of its own
RoundFloat(floats, term, places) ==
    NearestWhole(Float(IF floats = "float" THEN term
                       ELSE TimesWhole(term, 10 ^ places)),
                 IF floats = "float" THEN 10 ^ places ELSE 1)

\* a rounding of the value of term whose decimal value is known: off a tie
\* of the decimal value the double rounds as the decimal does (exact)
Rounding(floats, term, places, tie, exact) ==
    IF tie THEN RoundFloat(floats, term, places) ELSE exact

\* diff and pct of utils.py 81-82
DiffTerm(baseline, shocked) == Minus(FloatOf(shocked), FloatOf(baseline))

PctTerm(baseline, shocked) ==
    TimesWhole(Over(DiffTerm(baseline, shocked), FloatOf(baseline)), 100)

\* a number of mills is half way between two cents
HalfCent(mills) == Abs(mills) % 10 = 5

\* the percentage is half way between two multiples of 1/scale percent
PctTie(baseline, shocked, scale) ==
    /\ baseline # 0
    /\ 2 * (((shocked - baseline) * 100 * scale) % Abs(baseline))
          = Abs(baseline)

\* the percentage in units of 1/scale percent, rounded as a decimal (0
\* stands in where a zero baseline leaves no number)
PctExact(baseline, shocked, scale) ==
    IF baseline > 0
    THEN RoundDiv((shocked - baseline) * 100 * scale, baseline)
    ELSE IF baseline < 0
    THEN RoundDiv((baseline - shocked) * 100 * scale, 0 - baseline)
    ELSE 0

\* what diff / baseline gives: on numpy floats a zero baseline gives nan
\* or an infinity
PctKind(baseline, shocked) ==
    IF baseline # 0 THEN "finite"
    ELSE IF shocked = baseline THEN "nan"
    ELSE IF shocked > baseline THEN "inf" ELSE "-inf"

\* the numbers one call rounds: the four of the summary with round(), the
\* two of its text with the format of a float, which numpy.float64 inherits
RoundedFields ==
    {"baseline", "shocked", "difference", "pct_change", "diff_text", "pct_text"}

\* utils.py 87-90 and 92: one of the rounded numbers, the prices in mills;
\* in cents, pct_change in 0.01 percent, pct_text in 0.1 percent
RoundedField(field, floats, baseline, shocked) ==
    Rounding(IF field \in {"diff_text", "pct_text"} THEN "float" ELSE floats,
             CASE field = "baseline" -> FloatOf(baseline)
               [] field = "shocked" -> FloatOf(shocked)
               [] field \in {"difference", "diff_text"} ->
                      DiffTerm(baseline, shocked)
               [] field \in {"pct_change", "pct_text"} ->
                      PctTerm(baseline, shocked),
             IF field = "pct_text" THEN 1 ELSE 2,
             CASE field = "baseline" -> HalfCent(baseline)
               [] field = "shocked" -> HalfCent(shocked)
               [] field \in {"difference", "diff_text"} ->
                      HalfCent(shocked - baseline)
               [] field = "pct_change" -> PctTie(baseline, shocked, 100)
               [] field = "pct_text" -> PctTie(baseline, shocked, 10),
             CASE field = "baseline" -> RoundDiv(baseline, 10)
               [] field = "shocked" -> RoundDiv(shocked, 10)
               [] field \in {"difference", "diff_text"} ->
                      RoundDiv(shocked - baseline, 10)
               [] field = "pct_change" -> PctExact(baseline, shocked, 100)
               [] field = "pct_text" -> PctExact(baseline, shocked, 10))

\* round(float(x), 2) of a price in mills, in cents
Round2(mills) == RoundedField("baseline", "float", mills, mills)

---------------------------------------------------------------------------
(* Impact formatter: utils.format_price_change.  floats is the type of the *)
(* two prices: numpy.float64 when they come out of a forecast, float when  *)
(* a caller passes Python floats.                                          *)

\* the dictionary of utils.py 86-93: up is diff > 0, kind what the division
\* gave, rounded the rounded numbers by field
Summary(up, kind, rounded) ==
    [baseline   |-> rounded.baseline,
     shocked    |-> rounded.shocked,
     difference |-> rounded.difference,
     pct_change |-> [kind |-> kind, value |-> rounded.pct_change],
     arrow      |-> IF up THEN "up" ELSE "down",
     formatted  |-> [arrow |-> IF up THEN "up" ELSE "down",
                     sign  |-> IF up THEN "+" ELSE "",
                     diff  |-> rounded.diff_text,
                     pct   |-> [kind |-> kind, value |-> rounded.pct_text]]]

SummaryOf(up, floats, baseline, shocked) ==
    Summary(up, PctKind(baseline, shocked),
            [field \in RoundedFields |->
                RoundedField(field, floats, baseline, shocked)])

\* the difference and the percentage are taken of the rounded prices
format_price_change_rounding_first(floats, baseline, shocked) ==
    SummaryOf(shocked > baseline, floats,
              10 * RoundDiv(baseline, 10), 10 * RoundDiv(shocked, 10))

\* a difference of zero counts as a rise
format_price_change_zero_up(floats, baseline, shocked) ==
    SummaryOf(shocked >= baseline, floats, baseline, shocked)

\* utils.py 81-93.  diff > 0 exactly when shocked > baseline: two prices
\* that differ are two doubles that differ.  A zero baseline raises nothing
\* on numpy floats (format_price_change_on has the Python floats).
format_price_change(floats, baseline, shocked) ==
    SummaryOf(shocked > baseline, floats, baseline, shocked)

---------------------------------------------------------------------------
(* Forecast oracle: the fitted model behind self.model.get_forecast.       *)
(* It is an external collaborator; what the engine may rely on is that it  *)
(* is a deterministic function of the exogenous matrix and the horizon and *)
(* returns one value per requested step.                                   *)

\* level, weekly trend and driver coefficients of the stand-in model
OracleModel ==
    [level |-> 75000,
     trend |-> 120,
     beta  |-> [dollar_return  |-> -3,
                indpro_return  |-> 7,
                inventory_pct  |-> -2,
                fed_funds_diff |-> -1,
                vix_diff       |-> -1]]

RECURSIVE ExogEffect(_, _)
ExogEffect(row, i) ==
    IF i = 0 THEN 0
    ELSE OracleModel.beta[exog_cols[i]] * row[exog_cols[i]] + ExogEffect(row, i - 1)

\* point forecast of week t given that week's row of drivers, in mills.
\* The stand-in answers in whole cents, and in an odd number of cents on
\* the rows of the unshocked drivers: no forecast, difference or percentage
\* of a run is then half way between two rounded values, where numpy's
\* floats and Python's round apart (the formatter's own inputs have those)
PredictedMean(row, t) ==
    OracleModel.level + OracleModel.trend * t
        + 10 * (ExogEffect(row, Len(exog_cols)) \div (10 * Unit))

\* how one call of the oracle may behave: "ok" it answers, "raise" it fails
\* with an error of its own, "value_error" it rejects what it is given with
\* a ValueError, "short" it answers with one value fewer than the steps
\* asked for.  A horizon below 1 is outside its contract: if it answers,
\* it answers with no value.
OracleModes(steps) ==
    {"ok", "raise", "value_error"} \cup (IF steps >= 1 THEN {"short"} ELSE {})

\* the modes in which the oracle returns a forecast
Answers == {"ok", "short"}

\* how the two oracle calls of one run may behave: the second is made only
\* when the first answered
OracleRuns(steps) ==
    {m \in OracleModes(steps) \X (OracleModes(steps) \cup {""}) :
        (m[1] \in Answers) <=> (m[2] # "")}

get_forecast(exog, steps, mode) ==
    IF mode = "raise" THEN [raised |-> "Exception", predicted_mean |-> <<>>]
    ELSE IF mode = "value_error" \/ (steps >= 1 /\ Len(exog) # steps)
    THEN [raised |-> "ValueError", predicted_mean |-> <<>>]
    ELSE [raised |-> "",
          predicted_mean |->
              [t \in 1..(IF mode = "short" THEN Len(exog) - 1 ELSE Len(exog)) |->
                  PredictedMean(exog[t], t)]]

---------------------------------------------------------------------------
(* Scenario engine: scenario_engine.ScenarioEngine *)

\* the mapping is never looked into
Get_default_only(shocks, col, default) == default

\* shocks.get(col, 0.0)
Get(shocks, col, default) ==
    IF col \in DOMAIN shocks THEN shocks[col] ELSE default

\* a repetition that comes one row short
Repeat_one_short(row, n) == [i \in 1..(n - 1) |-> row]

\* [row] * n : no row at all when n <= 0
Repeat(row, n) == [i \in 1..n |-> row]

\* base aliases self.latest instead of copying its values, and the shocks
\* are added into it
build_exog_matrix_aliasing(lat, shocks, forecast_weeks) ==
    LET shocked == [col \in Drivers |-> lat[col] + Get(shocks, col, 0)]
    IN  [exog_matrix |-> Repeat(shocked, forecast_weeks),
         latest      |-> [col \in DOMAIN lat |->
                            IF col \in Drivers THEN shocked[col] ELSE lat[col]]]

\* the loop runs over the names of the shock mapping as well, so a name
\* that is no driver becomes a column
build_exog_matrix_by_shock_keys(lat, shocks, forecast_weeks) ==
    LET shocked == [col \in Drivers \cup DOMAIN shocks |->
                      (IF col \in Drivers THEN lat[col] ELSE 0)
                          + Get(shocks, col, 0)]
    IN  [exog_matrix |-> Repeat(shocked, forecast_weeks),
         latest      |-> lat]

\* Returns the matrix, and self.latest as the call leaves it: base and
\* shocked are new dicts, self.latest is only read.
build_exog_matrix(lat, shocks, forecast_weeks) ==
    LET base    == [col \in Drivers |-> lat[col]]
        shocked == [col \in Drivers |-> base[col] + Get(shocks, col, 0)]
    IN  [exog_matrix |-> Repeat(shocked, forecast_weeks),
         latest      |-> lat]

\* the baseline is asked for with every driver moved
zero_shocks_moving == [col \in Drivers |-> Unit]

zero_shocks == [col \in Drivers |-> 0]

\* the baseline is forecast one week further than asked
run_baseline_extra_week(lat, forecast_weeks, mode) ==
    LET built    == build_exog_matrix(lat, zero_shocks, forecast_weeks + 1)
        forecast == get_forecast(built.exog_matrix, forecast_weeks + 1, mode)
    IN  [raised        |-> forecast.raised,
         forecast_mean |-> forecast.predicted_mean,
         weeks         |-> forecast_weeks,
         current_price |-> lat.brent_price,
         asked         |-> built.exog_matrix,
         latest        |-> built.latest]

\* the last forecast is kept as the engine's current price
run_baseline_keeping_price(lat, forecast_weeks, mode) ==
    LET built    == build_exog_matrix(lat, zero_shocks, forecast_weeks)
        forecast == get_forecast(built.exog_matrix, forecast_weeks, mode)
        mean     == forecast.predicted_mean
    IN  [raised        |-> forecast.raised,
         forecast_mean |-> mean,
         weeks         |-> forecast_weeks,
         current_price |-> lat.brent_price,
         asked         |-> built.exog_matrix,
         latest        |-> IF forecast.raised = "" /\ Len(mean) > 0
                           THEN [built.latest EXCEPT !.brent_price = mean[Len(mean)]]
                           ELSE built.latest]

run_baseline(lat, forecast_weeks, mode) ==
    LET built    == build_exog_matrix(lat, zero_shocks, forecast_weeks)
        forecast == get_forecast(built.exog_matrix, forecast_weeks, mode)
    IN  [raised        |-> forecast.raised,
         forecast_mean |-> forecast.predicted_mean,
         weeks         |-> forecast_weeks,
         current_price |-> lat.brent_price,
         asked         |-> built.exog_matrix,
         latest        |-> built.latest]

NoImpact ==
    [baseline   |-> 0,
     shocked    |-> 0,
     difference |-> 0,
     pct_change |-> [kind |-> "nan", value |-> 0],
     arrow      |-> "down",
     formatted  |-> [arrow |-> "down", sign |-> "", diff |-> 0,
                     pct |-> [kind |-> "nan", value |-> 0]]]

NoResult ==
    [scenario_key |-> "", shocks |-> zero_shocks, current_price |-> 0,
     baseline_forecast |-> <<>>, shocked_forecast |-> <<>>,
     impact_week1 |-> NoImpact, impact_week12 |-> NoImpact, weeks |-> 0]

\* what a call of run_scenario comes to: the exception it raised ("" when it
\* returned), the keys an unknown-scenario error lists, the value returned,
\* the number of oracle calls made with the matrix each was asked about, in
\* order, and self.latest afterwards
Raise(type, available, calls, lat) ==
    [raised |-> type, available |-> available, result |-> NoResult,
     calls |-> calls, asked |-> <<>>, latest |-> lat]

\* the full-horizon impact is taken of the first week as well
run_known_scenario_first_week_twice(catalog, lat, scenario_key, forecast_weeks, mode1, mode2) ==
    LET shocks   == catalog[scenario_key].shocks
        baseline_result == run_baseline(lat, forecast_weeks, mode1)
        baseline_forecast == baseline_result.forecast_mean
        built    == build_exog_matrix(baseline_result.latest, shocks, forecast_weeks)
        shocked_forecast_obj == get_forecast(built.exog_matrix, forecast_weeks, mode2)
        shocked_forecast == shocked_forecast_obj.predicted_mean
    IN  IF baseline_result.raised # ""
        THEN [Raise(baseline_result.raised, {}, 1, baseline_result.latest)
                 EXCEPT !.asked = <<baseline_result.asked>>]
        ELSE IF shocked_forecast_obj.raised # ""
        THEN [Raise(shocked_forecast_obj.raised, {}, 2, built.latest)
                 EXCEPT !.asked = <<baseline_result.asked, built.exog_matrix>>]
        ELSE IF Len(baseline_forecast) = 0 \/ Len(shocked_forecast) = 0
        THEN [Raise("IndexError", {}, 2, built.latest)   \* .iloc[-1] of nothing
                 EXCEPT !.asked = <<baseline_result.asked, built.exog_matrix>>]
        ELSE
        [raised    |-> "",
         available |-> {},
         result    |->
            [scenario_key      |-> scenario_key,
             shocks            |-> shocks,
             current_price     |-> lat.brent_price,
             baseline_forecast |-> baseline_forecast,
             shocked_forecast  |-> shocked_forecast,
             impact_week1      |-> format_price_change("numpy.float64",
                                                       baseline_forecast[1],
                                                       shocked_forecast[1]),
             impact_week12     |-> format_price_change("numpy.float64",
                                                       baseline_forecast[1],
                                                       shocked_forecast[1]),
             weeks             |-> forecast_weeks],
         calls     |-> 2,
         asked     |-> <<baseline_result.asked, built.exog_matrix>>,
         latest    |-> built.latest]

\* run_scenario past its check of the key (scenario_engine.py 240-288)
run_known_scenario(catalog, lat, scenario_key, forecast_weeks, mode1, mode2) ==
    LET shocks   == catalog[scenario_key].shocks
        baseline_result == run_baseline(lat, forecast_weeks, mode1)
        baseline_forecast == baseline_result.forecast_mean
        built    == build_exog_matrix(baseline_result.latest, shocks, forecast_weeks)
        shocked_forecast_obj == get_forecast(built.exog_matrix, forecast_weeks, mode2)
        shocked_forecast == shocked_forecast_obj.predicted_mean
    IN  IF baseline_result.raised # ""
        THEN [Raise(baseline_result.raised, {}, 1, baseline_result.latest)
                 EXCEPT !.asked = <<baseline_result.asked>>]
        ELSE IF shocked_forecast_obj.raised # ""
        THEN [Raise(shocked_forecast_obj.raised, {}, 2, built.latest)
                 EXCEPT !.asked = <<baseline_result.asked, built.exog_matrix>>]
        ELSE IF Len(baseline_forecast) = 0 \/ Len(shocked_forecast) = 0
        THEN [Raise("IndexError", {}, 2, built.latest)   \* .iloc[-1] of nothing
                 EXCEPT !.asked = <<baseline_result.asked, built.exog_matrix>>]
        ELSE
        [raised    |-> "",
         available |-> {},
         result    |->
            [scenario_key      |-> scenario_key,
             shocks            |-> shocks,
             current_price     |-> lat.brent_price,
             baseline_forecast |-> baseline_forecast,
             shocked_forecast  |-> shocked_forecast,
             impact_week1      |-> format_price_change("numpy.float64",
                                                       baseline_forecast[1],
                                                       shocked_forecast[1]),
             impact_week12     |-> format_price_change("numpy.float64",
                                       baseline_forecast[Len(baseline_forecast)],
                                       shocked_forecast[Len(shocked_forecast)]),
             weeks             |-> forecast_weeks],
         calls     |-> 2,
         asked     |-> <<baseline_result.asked, built.exog_matrix>>,
         latest    |-> built.latest]

\* an unknown key is replaced by a default scenario
run_scenario_defaulting(catalog, lat, scenario_key, forecast_weeks, mode1, mode2) ==
    run_known_scenario(catalog, lat,
                       IF scenario_key \in DOMAIN catalog THEN scenario_key
                       ELSE "geopolitical_tension",
                       forecast_weeks, mode1, mode2)

run_scenario(catalog, lat, scenario_key, forecast_weeks, mode1, mode2) ==
    IF scenario_key \notin DOMAIN catalog
    THEN Raise("ValueError", DOMAIN catalog, 0, lat)
    ELSE run_known_scenario(catalog, lat, scenario_key, forecast_weeks,
                            mode1, mode2)

---------------------------------------------------------------------------
(* Magnitude scaling, as each caller writes it inline *)

\* app.run_simulation: a dict comprehension over the catalog entry's shocks.
\* Returns the new mapping, and the mapping it read as the step leaves it.
\* the comprehension replaced by a loop that scales the entry itself
modified_shocks_in_place(shocks, modifier) ==
    LET scaled == [k \in DOMAIN shocks |-> Times(shocks[k], modifier)]
    IN  [modified |-> scaled, source |-> scaled]

modified_shocks(shocks, modifier) ==
    [modified |-> [k \in DOMAIN shocks |-> Times(shocks[k], modifier)],
     source   |-> shocks]

\* the keys of a dict in the order a loop visits them
RECURSIVE KeyList(_)
KeyList(keys) ==
    IF keys = {} THEN <<>>
    ELSE LET k == CHOOSE x \in keys : TRUE IN <<k>> \o KeyList(keys \ {k})

\* for var in d: d[var] *= modifier
RECURSIVE ScaleInPlace(_, _, _)
ScaleInPlace(d, todo, modifier) ==
    IF todo = <<>> THEN d
    ELSE ScaleInPlace([d EXCEPT ![Head(todo)] = Times(@, modifier)],
                      Tail(todo), modifier)

\* copy.copy in place of copy.deepcopy: the copy shares the entry's shocks
modified_scenario_shallow(entry, modifier) ==
    LET scaled == ScaleInPlace(entry.shocks, KeyList(DOMAIN entry.shocks),
                               modifier)
    IN  [modified |-> [entry EXCEPT !.shocks = scaled],
         source   |-> [entry EXCEPT !.shocks = scaled]]

\* test.run_interactive: a deep copy of the catalog entry, scaled in place.
\* Returns the scaled copy, and the entry it copied as the step leaves it.
modified_scenario(entry, modifier) ==
    LET copy == entry        \* copy.deepcopy: another object, equal values
    IN  [modified |-> [copy EXCEPT !.shocks =
                          ScaleInPlace(copy.shocks, KeyList(DOMAIN copy.shocks),
                                       modifier)],
         source   |-> entry]

---------------------------------------------------------------------------
(* Query parser: llm_explainer.LLMExplainer.parse_user_query.  The LLM is  *)
(* an external service; a reply of it is                                   *)
(*   kind "api_error"    the call raised,                                  *)
(*   kind "text"         text that is no JSON,                             *)
(*   kind "json_array"   JSON that is no object,                           *)
(*   kind "json_object"  a JSON object, given by its fields,               *)
(*   kind "fenced_json"  a JSON object between markdown fences.            *)
(* Of the fields only those the callers read are kept.                     *)

AVAILABLE_SCENARIOS ==
    {"opec_cut", "global_recession", "rate_hike", "geopolitical_tension",
     "demand_boom"}

\* d[k] = v on a dict
Put(d, k, v) == [x \in DOMAIN d \cup {k} |-> IF x = k THEN v ELSE d[x]]

NoDict == [x \in {} |-> ""]

\* the dict returned when the reply is no JSON
Fallback ==
    [scenario_key       |-> "geopolitical_tension",
     magnitude_modifier |-> 2,
     confidence         |-> "low",
     reasoning          |-> "Parse failed",
     forecast_weeks     |-> 12]

\* a key outside the catalog is kept as the LLM gave it
parse_user_query_trusting(reply) ==
    IF reply.kind = "api_error" THEN [raised |-> "APIError", parsed |-> NoDict]
    ELSE IF reply.kind = "text" THEN [raised |-> "", parsed |-> Fallback]
    ELSE IF reply.kind = "json_array"
    THEN [raised |-> "AttributeError", parsed |-> NoDict]
    ELSE [raised |-> "", parsed |-> reply.fields]

\* Returns the exception that left the method ("" when it returned) and
\* the dict returned.  Only JSONDecodeError and KeyError are caught.
parse_user_query(reply) ==
    IF reply.kind = "api_error" THEN [raised |-> "APIError", parsed |-> NoDict]
    ELSE IF reply.kind = "text" THEN [raised |-> "", parsed |-> Fallback]
    ELSE IF reply.kind = "json_array"         \* a list has no .get
    THEN [raised |-> "AttributeError", parsed |-> NoDict]
    ELSE LET parsed == reply.fields
         IN  [raised |-> "",
              parsed |->
                 IF Get(parsed, "scenario_key", "") \notin AVAILABLE_SCENARIOS
                 THEN Put(Put(parsed, "scenario_key", "geopolitical_tension"),
                          "confidence", "low")
                 ELSE parsed]

---------------------------------------------------------------------------
(* Inputs *)

Requests == 1..NumRequests

\* magnitude modifiers a parsed query carries: 0.0, 0.5, 1.0, 2.0
Modifiers == {0, 1, 2, 4}

\* horizons a caller of the engine asks for, zero and a negative one among
\* them, and those an HTTP request carries
Horizons == (-1)..MaxWeeks
RequestHorizons == 0..MaxWeeks

\* keys a caller of the engine may pass: the catalog's and one that is not
CallerKeys == ScenarioKeys \cup {"made_up_key"}

\* JSON objects the LLM may reply with: each field is there or not, the
\* key may be one the catalog does not have
ReplyFields ==
    LET Some(name, values) ==
            {NoDict} \cup {Put(NoDict, name, v) : v \in values}
        Join(a, b) == [x \in DOMAIN a \cup DOMAIN b |->
                          IF x \in DOMAIN a THEN a[x] ELSE b[x]]
    IN  {Join(Join(Join(k, m), Join(w, c)), r) :
            k \in Some("scenario_key", CallerKeys),
            m \in Some("magnitude_modifier", Modifiers),
            w \in Some("forecast_weeks", RequestHorizons),
            c \in Some("confidence", {"high", "low"}),
            r \in Some("reasoning", {"why this scenario fits"})}

Replies ==
    {[kind |-> kind, fields |-> NoDict] :
        kind \in {"api_error", "text", "json_array"}}
      \cup {[kind |-> kind, fields |-> fields] :
               kind \in {"json_object", "fenced_json"}, fields \in ReplyFields}

\* replies that are a JSON object with every field, the key a catalog key
CompleteReplies ==
    {reply \in Replies :
        /\ reply.kind = "json_object"
        /\ DOMAIN reply.fields = DOMAIN Fallback
        /\ reply.fields["scenario_key"] \in ScenarioKeys
        /\ reply.fields["confidence"] = "high"}

\* forecast_weeks of a ScenarioRequest: one week, or the default of 12
RequestWeeks == {1, 12}

\* a POST /simulate: the forecast_weeks of its body and the reply the LLM
\* gives to its query
Queries ==
    {[forecast_weeks |-> weeks, reply |-> reply] :
        weeks \in RequestWeeks, reply \in Replies}

\* those with the default horizon and a complete reply
CompleteQueries ==
    {[forecast_weeks |-> 12, reply |-> reply] : reply \in CompleteReplies}

---------------------------------------------------------------------------
(* The API server: app.py.  A handler runs in a worker thread, so the      *)
(* handlers of several requests interleave between any two accesses to the *)
(* module-level SCENARIOS.                                                 *)

NoOutcome == Raise("", {}, 0, LatestAtStartup)

NoResponse ==
    [status |-> 0, shocks_applied |-> zero_shocks, weekly_forecasts |-> <<>>,
     explained_shocks |-> zero_shocks]

IdleRequest ==
    [pc |-> "idle", kind |-> "", scenario_key |-> "", modifier |-> 2,
     weeks |-> 0, modified_shocks |-> zero_shocks,
     original_shocks |-> zero_shocks, oracle |-> <<"", "">>,
     out |-> NoOutcome, response |-> NoResponse,
     \* for the properties: the horizon field of the parsed query (none when
     \* it has none), whether the parser fell back on its default dict, the
     \* horizon of the request body, and the catalog entry's shocks when the
     \* handler started
     parsed_weeks |-> <<>>, fallback |-> FALSE, request_weeks |-> 0,
     catalog_before |-> zero_shocks]

\* except ValueError -> 400, except Exception -> 500
HTTPStatus(raised) == IF raised = "ValueError" THEN 400 ELSE 500

Failed(r, out, status) ==
    [r EXCEPT !.pc = "done", !.out = out, !.response.status = status]

\* /simulate, steps 1 and 2 (app.py 131-141): the query is parsed, which
\* gives the key, the modifier and the horizon; the scaled mapping is
\* computed from the catalog entry as it is now.  An exception of the
\* parser is answered 500 (app.py 190-193).  queries: what the server may
\* be sent.
SimScale(p, queries) ==
    /\ req[p].pc = "idle"
    /\ started < NumRequests
    /\ started' = started + 1
    /\ \E query \in queries :
         LET call   == parse_user_query(query.reply)
             parsed == call.parsed
             r      == [req[p] EXCEPT !.kind = "simulate",
                                      !.request_weeks = query.forecast_weeks]
         IN  IF call.raised # ""
             THEN /\ req' = [req EXCEPT ![p] =
                               Failed(r, Raise(call.raised, {}, 0, latest),
                                      HTTPStatus(call.raised))]
                  /\ UNCHANGED SCENARIOS
             ELSE IF Get(parsed, "scenario_key", "") \notin DOMAIN SCENARIOS
             THEN /\ req' = [req EXCEPT ![p] =         \* parsed[...], SCENARIOS[...]
                               Failed([r EXCEPT !.scenario_key =
                                          Get(parsed, "scenario_key", "")],
                                      Raise("KeyError", {}, 0, latest),
                                      HTTPStatus("KeyError"))]
                  /\ UNCHANGED SCENARIOS
             ELSE LET key      == parsed["scenario_key"]
                      modifier == Get(parsed, "magnitude_modifier", 2)
                      weeks    == Get(parsed, "forecast_weeks",
                                      query.forecast_weeks)
                      scaled   == modified_shocks(SCENARIOS[key].shocks, modifier)
                  IN  /\ req' = [req EXCEPT ![p] =
                                   [r EXCEPT
                                      !.pc = "scaled",
                                      !.scenario_key = key,
                                      !.modifier = modifier,
                                      !.weeks = weeks,
                                      !.modified_shocks = scaled.modified,
                                      !.parsed_weeks =
                                          IF "forecast_weeks" \in DOMAIN parsed
                                          THEN <<parsed["forecast_weeks"]>>
                                          ELSE <<>>,
                                      !.fallback = (query.reply.kind = "text"),
                                      !.catalog_before = SCENARIOS[key].shocks]]
                      /\ SCENARIOS' = [SCENARIOS EXCEPT
                                          ![key].shocks = scaled.source]
    /\ UNCHANGED <<latest, eng, prevEng, scl, bld, fmt, loop>>

\* app.py 144: original_shocks = SCENARIOS[key]["shocks"].copy()
SimSaveOriginal(p) ==
    /\ req[p].pc = "scaled"
    /\ req' = [req EXCEPT ![p].pc = "saved",
                          ![p].original_shocks =
                              SCENARIOS[req[p].scenario_key].shocks]
    /\ UNCHANGED <<SCENARIOS, latest, started, eng, prevEng, scl, bld, fmt, loop>>

\* app.py 145: SCENARIOS[key]["shocks"] = modified_shocks
SimOverride(p) ==
    /\ req[p].pc = "saved"
    /\ SCENARIOS' = [SCENARIOS EXCEPT ![req[p].scenario_key].shocks =
                                          req[p].modified_shocks]
    /\ req' = [req EXCEPT ![p].pc = "overridden"]
    /\ UNCHANGED <<latest, started, eng, prevEng, scl, bld, fmt, loop>>

\* app.py 148: result = engine.run_scenario(scenario_key, weeks); an
\* exception leaves the handler through the except clauses (186-193)
SimRunScenario(p) ==
    /\ req[p].pc = "overridden"
    /\ \E modes \in OracleRuns(req[p].weeks) :
         LET out == run_scenario(SCENARIOS, latest, req[p].scenario_key,
                                 req[p].weeks, modes[1], modes[2])
         IN  /\ req' = [req EXCEPT ![p] =
                          LET r == [@ EXCEPT !.oracle = modes]
                          IN  IF out.raised = ""
                              THEN [r EXCEPT !.pc = "ran", !.out = out]
                              ELSE Failed(r, out, HTTPStatus(out.raised))]
             /\ latest' = out.latest
    /\ UNCHANGED <<SCENARIOS, started, eng, prevEng, scl, bld, fmt, loop>>

\* app.py 151: SCENARIOS[key]["shocks"] = original_shocks
SimRestore(p) ==
    /\ req[p].pc = "ran"
    /\ SCENARIOS' = [SCENARIOS EXCEPT ![req[p].scenario_key].shocks =
                                          req[p].original_shocks]
    /\ req' = [req EXCEPT ![p].pc = "restored"]
    /\ UNCHANGED <<latest, started, eng, prevEng, scl, bld, fmt, loop>>

\* the last week is left out of the list
WeeklyForecasts_but_last(baseline, shocked) ==
    [i \in 1..(Len(baseline) - 1) |->
        [week |-> i, baseline |-> Round2(baseline[i]),
         scenario |-> Round2(shocked[i]),
         change |-> RoundedField("difference", "float",
                                baseline[i], shocked[i])]]

\* one WeeklyForecast per pair of zip(baseline_forecast, shocked_forecast)
WeeklyForecasts(baseline, shocked) ==
    LET n == IF Len(baseline) < Len(shocked) THEN Len(baseline) ELSE Len(shocked)
    IN  [i \in 1..n |->
           [week |-> i, baseline |-> Round2(baseline[i]),
            scenario |-> Round2(shocked[i]),
            change |-> RoundedField("difference", "float",
                                baseline[i], shocked[i])]]

\* app.py 153-184: the explanation is generated from result, the response
\* reports modified_shocks as shocks_applied
SimRespond(p) ==
    /\ req[p].pc = "restored"
    /\ req' = [req EXCEPT ![p].pc = "done",
                 ![p].response =
                    [status           |-> 200,
                     shocks_applied   |-> req[p].modified_shocks,
                     weekly_forecasts |->
                        WeeklyForecasts(req[p].out.result.baseline_forecast,
                                        req[p].out.result.shocked_forecast),
                     explained_shocks |-> req[p].out.result.shocks]]
    /\ UNCHANGED <<SCENARIOS, latest, started, eng, prevEng, scl, bld, fmt, loop>>

\* /simulate-direct (app.py 206-210): an unknown key is answered 400
DirectCheck(p) ==
    /\ req[p].pc = "idle"
    /\ started < NumRequests
    /\ started' = started + 1
    /\ \E key \in CallerKeys, weeks \in RequestHorizons :
         req' = [req EXCEPT ![p] =
                   LET r == [@ EXCEPT !.kind = "direct", !.scenario_key = key,
                                      !.weeks = weeks]
                   IN  IF key \notin DOMAIN SCENARIOS
                       THEN Failed(r, Raise("HTTPException", DOMAIN SCENARIOS,
                                            0, latest), 400)
                       ELSE [r EXCEPT !.pc = "checked"]]
    /\ UNCHANGED <<SCENARIOS, latest, eng, prevEng, scl, bld, fmt, loop>>

\* /simulate-direct (app.py 212-221): no except clause, so an exception of
\* run_scenario is answered 500 by the framework
DirectRun(p) ==
    /\ req[p].pc = "checked"
    /\ \E modes \in OracleRuns(req[p].weeks) :
         LET out == run_scenario(SCENARIOS, latest, req[p].scenario_key,
                                 req[p].weeks, modes[1], modes[2])
         IN  /\ req' = [req EXCEPT ![p] =
                          LET r == [@ EXCEPT !.oracle = modes]
                          IN  IF out.raised = ""
                              THEN [r EXCEPT !.pc = "done", !.out = out,
                                             !.response.status = 200]
                              ELSE Failed(r, out, 500)]
             /\ latest' = out.latest
    /\ UNCHANGED <<SCENARIOS, started, eng, prevEng, scl, bld, fmt, loop>>

\* the worker thread is free again: the handler's locals are gone
Recycle(p) ==
    /\ req[p].pc = "done"
    /\ req' = [req EXCEPT ![p] = IdleRequest]
    /\ UNCHANGED <<SCENARIOS, latest, started, eng, prevEng, scl, bld, fmt, loop>>

---------------------------------------------------------------------------
(* A caller of the engine alone: one ScenarioEngine, called again and      *)
(* again, with nobody writing to SCENARIOS.  eng is the last call and what *)
(* it came to (with how the oracle behaved in the calls made of it),       *)
(* prevEng the call before it.                                             *)

\* the oracle of these runs keeps to the length asked of it: answers of
\* another length are drawn in the server's runs
EngineModes(steps) == OracleModes(steps) \ {"short"}
EngineRuns(steps) ==
    {m \in OracleRuns(steps) : m[1] # "short" /\ m[2] # "short"}

NoCall ==
    [op |-> "", scenario_key |-> "", weeks |-> 0, mode1 |-> "", mode2 |-> "",
     out |-> NoOutcome]

EngRunBaseline ==
    \E weeks \in Horizons : \E mode \in EngineModes(weeks) :
        LET b == run_baseline(latest, weeks, mode)
        IN  /\ eng' = [op |-> "run_baseline", scenario_key |-> "",
                       weeks |-> weeks, mode1 |-> mode, mode2 |-> "",
                       out |-> [raised |-> b.raised, available |-> {},
                                result |-> [NoResult EXCEPT
                                    !.baseline_forecast = b.forecast_mean,
                                    !.current_price = b.current_price,
                                    !.weeks = b.weeks],
                                calls |-> 1, asked |-> <<b.asked>>,
                                latest |-> b.latest]]
            /\ prevEng' = eng
            /\ latest' = b.latest
            /\ UNCHANGED <<SCENARIOS, req, started, scl, bld, fmt, loop>>

EngRunScenario ==
    \E key \in CallerKeys, weeks \in Horizons :
      \E modes \in EngineRuns(weeks) :
        LET out == run_scenario(SCENARIOS, latest, key, weeks, modes[1], modes[2])
        IN  /\ eng' = [op |-> "run_scenario", scenario_key |-> key,
                       weeks |-> weeks,
                       mode1 |-> IF out.calls >= 1 THEN modes[1] ELSE "",
                       mode2 |-> IF out.calls >= 2 THEN modes[2] ELSE "",
                       out |-> out]
            /\ prevEng' = eng
            /\ latest' = out.latest
            /\ UNCHANGED <<SCENARIOS, req, started, scl, bld, fmt, loop>>

---------------------------------------------------------------------------
(* The scaling computation alone, applied once to a drawn input *)

NoScale ==
    [impl |-> "", input |-> [shocks |-> zero_shocks], modifier |-> 2,
     applied |-> FALSE, output |-> zero_shocks,
     input_after |-> [shocks |-> zero_shocks]]

\* 0.0, 0.5, 1.0, 1.5, 2.0
ScaleModifiers == {0, 1, 2, 3, 4}

\* the catalog's entries, an entry of zeros, one that names three drivers
\* only and one that names a driver the model does not have
ScaleInputs ==
    {SCENARIOS_DEF[k] : k \in ScenarioKeys}
      \cup {[shocks |-> zero_shocks],
            [shocks |-> [inventory_pct |-> (-50) * Unit, vix_diff |-> 3 * Unit,
                         dollar_return |-> 7 * Unit]],
            [shocks |-> [vix_diff |-> (-2001) * Unit, gold_return |-> 9 * Unit]]}

\* app.py 138-141 on the drawn entry
ScaleInHandler ==
    /\ ~scl.applied /\ scl.impl = "run_simulation"
    /\ LET scaled == modified_shocks(scl.input.shocks, scl.modifier)
       IN  scl' = [scl EXCEPT !.applied = TRUE, !.output = scaled.modified,
                              !.input_after = [scl.input EXCEPT
                                                  !.shocks = scaled.source]]
    /\ UNCHANGED <<SCENARIOS, latest, req, started, eng, prevEng, bld, fmt, loop>>

\* test.py 111-113 on the drawn entry
ScaleInLoop ==
    /\ ~scl.applied /\ scl.impl = "run_interactive"
    /\ LET scaled == modified_scenario(scl.input, scl.modifier)
       IN  scl' = [scl EXCEPT !.applied = TRUE,
                              !.output = scaled.modified.shocks,
                              !.input_after = scaled.source]
    /\ UNCHANGED <<SCENARIOS, latest, req, started, eng, prevEng, bld, fmt, loop>>

---------------------------------------------------------------------------
(* The matrix builder alone, applied once to a drawn input *)

NoBuild ==
    [shocks |-> zero_shocks, weeks |-> 0, applied |-> FALSE,
     exog_matrix |-> <<>>]

\* shock mappings handed to the builder: the catalog's entries and the
\* partial and foreign ones, each at every magnitude
BuildShocks ==
    {modified_shocks(input.shocks, modifier).modified :
        input \in ScaleInputs, modifier \in ScaleModifiers}

\* snapshots the engine may have read at start-up: the one of the server
\* and one of another week
BuildSnapshots ==
    {LatestAtStartup,
     [brent_price    |-> 68250,
      dollar_return  |-> (-4) * Unit,
      indpro_return  |-> 0,
      inventory_pct  |-> 25 * Unit,
      fed_funds_diff |-> 250 * Unit,
      vix_diff       |-> (-1500) * Unit]}

\* scenario_engine.py 147-187 on the drawn mapping and horizon
BuildMatrix ==
    /\ ~bld.applied
    /\ LET built == build_exog_matrix(latest, bld.shocks, bld.weeks)
       IN  /\ bld' = [bld EXCEPT !.applied = TRUE,
                                 !.exog_matrix = built.exog_matrix]
           /\ latest' = built.latest
    /\ UNCHANGED <<SCENARIOS, req, started, eng, prevEng, scl, fmt, loop>>

---------------------------------------------------------------------------
(* The impact formatter alone, applied once to a drawn pair of prices, and *)
(* the dashboard's metric card made of the summary it returned             *)

\* format_price_change called with values of the given float type: with
\* Python floats the division by a zero baseline raises
format_price_change_on(floats, baseline, shocked) ==
    IF floats = "float" /\ baseline = 0
    THEN [raised |-> "ZeroDivisionError", summary |-> NoImpact]
    ELSE [raised |-> "",
          summary |-> format_price_change(floats, baseline, shocked)]

\* app_ui.py 586-594: colour and sign of an impact card, decided from the
\* 'difference' field of the summary
metric_card(impact) ==
    [css_class |-> IF impact.difference < 0 THEN "metric-value-down"
                   ELSE "metric-value-up",
     sign      |-> IF impact.difference >= 0 THEN "+" ELSE ""]

NoCard == [css_class |-> "", sign |-> ""]

NoFormat ==
    [floats |-> "numpy.float64", baseline |-> 0, shocked |-> 0,
     pc |-> "drawn", raised |-> "", out |-> NoImpact, card |-> NoCard]

\* prices in mills: zero, the 75.00 / 71.25 of the documented example,
\* prices a fraction of a cent apart, a negative one, and prices that are,
\* or lie, half a cent or half a hundredth of a percent from a rounded value
FormatBaselines == {0, 75000, 75004, 71250, 3, -2000, 74651, 4000, 1000}
FormatShocked == {0, 71250, 71256, 75000, 75001, 74997, 75006, -2003,
                  66436, 4001, 1015, 75025}
FloatTypes == {"numpy.float64", "float"}

\* utils.py 76-93 on the drawn pair
FormatImpact ==
    /\ fmt.pc = "drawn"
    /\ LET call == format_price_change_on(fmt.floats, fmt.baseline, fmt.shocked)
       IN  fmt' = [fmt EXCEPT !.pc = IF call.raised = "" THEN "formatted"
                                     ELSE "failed",
                              !.raised = call.raised,
                              !.out = call.summary]
    /\ UNCHANGED <<SCENARIOS, latest, req, started, eng, prevEng, scl, bld, loop>>

\* app_ui.py 581-594 on the summary returned
ShowImpact ==
    /\ fmt.pc = "formatted"
    /\ fmt' = [fmt EXCEPT !.pc = "shown", !.card = metric_card(fmt.out)]
    /\ UNCHANGED <<SCENARIOS, latest, req, started, eng, prevEng, scl, bld, loop>>

---------------------------------------------------------------------------
(* The interactive loop: test.run_interactive.  It is a program of its own *)
(* with its own copy of SCENARIOS, one thread, and no except clause: an    *)
(* exception ends the process.                                             *)

\* lines the user may type at the query prompt
UserInputs ==
    {"", "   ", "quit", "QUIT", " Quit ", "list", " List",
     "what if opec cuts output"}

\* lines the user may type at the confirmation prompt
UserAnswers == {"y", "Y", " y ", "n", "", "yes", "Yes"}

\* the letters are left as typed
lower_as_typed(text) == text

\* str.strip on the lines above
strip(text) ==
    CASE text = "   "    -> ""
      [] text = " Quit " -> "Quit"
      [] text = " List"  -> "List"
      [] text = " y "    -> "y"
      [] OTHER           -> text

\* str.lower on the stripped lines
lower(text) ==
    CASE text = "QUIT" -> "quit"
      [] text = "Quit" -> "quit"
      [] text = "List" -> "list"
      [] text = "Y"    -> "y"
      [] text = "Yes"  -> "yes"
      [] OTHER         -> text

NoLoop ==
    [pc |-> "off", user_input |-> "", reply |-> [kind |-> "", fields |-> NoDict],
     parsed |-> NoDict, confirm |-> <<>>, original_shocks |-> zero_shocks,
     oracle |-> <<"", "">>, out |-> NoOutcome,
     \* for the properties: what this iteration has done so far, and the
     \* catalog entry's shocks before it was touched
     events |-> <<>>, catalog_before |-> zero_shocks]

AtPrompt == [NoLoop EXCEPT !.pc = "prompt"]

Crashed(l, type) ==
    [l EXCEPT !.pc = "crashed", !.out = Raise(type, {}, 0, latest)]

\* test.py 76-87: a line is read; an empty one and 'list' go back to the
\* prompt, 'quit' leaves the loop, anything else is a query
LoopInput ==
    /\ loop.pc = "prompt"
    /\ \E typed \in UserInputs :
         LET user_input == strip(typed)
             l == [AtPrompt EXCEPT !.user_input = typed]
         IN  IF user_input = "" THEN loop' = l /\ UNCHANGED started
             ELSE IF lower(user_input) = "quit"
             THEN loop' = [l EXCEPT !.pc = "ended"] /\ UNCHANGED started
             ELSE IF lower(user_input) = "list"     \* list_scenarios prints
             THEN loop' = l /\ UNCHANGED started
             ELSE /\ started < NumRequests
                  /\ started' = started + 1
                  /\ loop' = [l EXCEPT !.pc = "parse"]
    /\ UNCHANGED <<SCENARIOS, latest, req, eng, prevEng, scl, bld, fmt>>

\* test.py 89-98: the query is parsed and the parse is printed, which reads
\* parsed['scenario_key'], parsed['confidence'] and parsed['reasoning']: a
\* parse without one of them ends the loop with a KeyError (the parser
\* itself adds the first two, never the third)
LoopParse ==
    /\ loop.pc = "parse"
    /\ \E reply \in Replies :
         LET call == parse_user_query(reply)
             l == [loop EXCEPT !.reply = reply, !.parsed = call.parsed,
                               !.events = Append(@, "parse")]
         IN  loop' = IF call.raised # "" THEN Crashed(l, call.raised)
                     ELSE IF {"scenario_key", "confidence", "reasoning"}
                                \ DOMAIN call.parsed # {}
                     THEN Crashed(l, "KeyError")
                     ELSE IF call.parsed["confidence"] = "low"
                     THEN [l EXCEPT !.pc = "confirm"]
                     ELSE [l EXCEPT !.pc = "scale"]
    /\ UNCHANGED <<SCENARIOS, latest, req, started, eng, prevEng, scl, bld, fmt>>

\* test.py 99-102: a low-confidence parse is put to the user
LoopConfirm ==
    /\ loop.pc = "confirm"
    /\ \E typed \in UserAnswers :
         LET confirm == lower(strip(typed))
         IN  loop' = [loop EXCEPT !.confirm = <<typed>>,
                                  !.pc = IF confirm # "y" THEN "prompt"
                                         ELSE "scale"]
    /\ UNCHANGED <<SCENARIOS, latest, req, started, eng, prevEng, scl, bld, fmt>>

\* test.py 104-117: the entry is copied and scaled, the shocks it had are
\* saved and the scaled ones put in their place
LoopOverride ==
    /\ loop.pc = "scale"
    /\ LET scenario_key == loop.parsed["scenario_key"]
           modifier     == Get(loop.parsed, "magnitude_modifier", 2)
       IN  IF scenario_key \notin DOMAIN SCENARIOS
           THEN /\ loop' = Crashed(loop, "KeyError")
                /\ UNCHANGED SCENARIOS
           ELSE LET scaled == modified_scenario(SCENARIOS[scenario_key], modifier)
                IN  /\ loop' = [loop EXCEPT
                                  !.pc = "run",
                                  !.original_shocks = scaled.source.shocks,
                                  !.catalog_before = SCENARIOS[scenario_key].shocks,
                                  !.events = Append(@, "override")]
                    /\ SCENARIOS' = [SCENARIOS EXCEPT ![scenario_key].shocks =
                                                         scaled.modified.shocks]
    /\ UNCHANGED <<latest, req, started, eng, prevEng, scl, bld, fmt>>

\* test.py 119-122: the scenario is run over the parsed horizon, 12 weeks
\* when the parse names none, and the result printed
LoopRun ==
    /\ loop.pc = "run"
    /\ LET forecast_weeks == Get(loop.parsed, "forecast_weeks", 12)
       IN  \E modes \in OracleRuns(forecast_weeks) :
             LET out == run_scenario(SCENARIOS, latest,
                                     loop.parsed["scenario_key"],
                                     forecast_weeks, modes[1], modes[2])
                 l   == [loop EXCEPT !.oracle = modes, !.out = out,
                                     !.events = Append(@, "run")]
             IN  /\ loop' = [l EXCEPT !.pc = IF out.raised = "" THEN "restore"
                                              ELSE "crashed"]
                 /\ latest' = out.latest
    /\ UNCHANGED <<SCENARIOS, req, started, eng, prevEng, scl, bld, fmt>>

\* test.py 124-125: the saved shocks are put back
LoopRestore ==
    /\ loop.pc = "restore"
    /\ SCENARIOS' = [SCENARIOS EXCEPT ![loop.parsed["scenario_key"]].shocks =
                                          loop.original_shocks]
    /\ loop' = [loop EXCEPT !.pc = "report", !.events = Append(@, "restore")]
    /\ UNCHANGED <<latest, req, started, eng, prevEng, scl, bld, fmt>>

\* test.py 127-133: explanation and report, then the next prompt
LoopReport ==
    /\ loop.pc = "report"
    /\ loop' = [loop EXCEPT !.pc = "prompt", !.events = Append(@, "report")]
    /\ UNCHANGED <<SCENARIOS, latest, req, started, eng, prevEng, scl, bld, fmt>>

---------------------------------------------------------------------------
(* Specifications *)

Init ==
    /\ SCENARIOS = SCENARIOS_DEF
    /\ latest = LatestAtStartup
    /\ req = [p \in Requests |-> IdleRequest]
    /\ started = 0
    /\ eng = NoCall
    /\ prevEng = NoCall
    /\ scl = NoScale
    /\ bld = NoBuild
    /\ fmt = NoFormat
    /\ loop = NoLoop

Next ==
    \E p \in Requests :
        \/ SimScale(p, CompleteQueries)
        \/ SimSaveOriginal(p)
        \/ SimOverride(p)
        \/ SimRunScenario(p)
        \/ SimRestore(p)
        \/ SimRespond(p)
        \/ DirectCheck(p)
        \/ DirectRun(p)

Spec == Init /\ [][Next]_vars

\* the server with one worker: a request starts when the one before is over
SerialNext ==
    \/ SimScale(1, Queries)
    \/ SimSaveOriginal(1)
    \/ SimOverride(1)
    \/ SimRunScenario(1)
    \/ SimRestore(1)
    \/ SimRespond(1)
    \/ DirectCheck(1)
    \/ DirectRun(1)
    \/ Recycle(1)

SpecSerial == Init /\ [][SerialNext]_vars

\* either program, running alone: the server with one worker, or the
\* interactive loop
SoloInit ==
    /\ SCENARIOS = SCENARIOS_DEF
    /\ latest = LatestAtStartup
    /\ req = [p \in Requests |-> IdleRequest]
    /\ started = 0
    /\ eng = NoCall
    /\ prevEng = NoCall
    /\ scl = NoScale
    /\ bld = NoBuild
    /\ fmt = NoFormat
    /\ loop \in {NoLoop, AtPrompt}

LoopNext ==
    \/ LoopInput
    \/ LoopParse
    \/ LoopConfirm
    \/ LoopOverride
    \/ LoopRun
    \/ LoopRestore
    \/ LoopReport

SoloNext == (loop.pc = "off" /\ SerialNext) \/ LoopNext

SpecSolo == SoloInit /\ [][SoloNext]_vars

EngineNext == EngRunBaseline \/ EngRunScenario

SpecEngine == Init /\ [][EngineNext]_vars

ScaleInit ==
    /\ SCENARIOS = SCENARIOS_DEF
    /\ latest = LatestAtStartup
    /\ req = [p \in Requests |-> IdleRequest]
    /\ started = 0
    /\ eng = NoCall
    /\ prevEng = NoCall
    /\ scl \in {[NoScale EXCEPT !.impl = impl, !.input = input,
                                !.modifier = modifier] :
                   impl \in {"run_simulation", "run_interactive"},
                   input \in ScaleInputs, modifier \in ScaleModifiers}
    /\ bld = NoBuild
    /\ fmt = NoFormat
    /\ loop = NoLoop

ScaleNext == ScaleInHandler \/ ScaleInLoop

SpecScale == ScaleInit /\ [][ScaleNext]_vars

BuildInit ==
    /\ SCENARIOS = SCENARIOS_DEF
    /\ latest \in BuildSnapshots
    /\ req = [p \in Requests |-> IdleRequest]
    /\ started = 0
    /\ eng = NoCall
    /\ prevEng = NoCall
    /\ scl = NoScale
    /\ bld \in {[NoBuild EXCEPT !.shocks = shocks, !.weeks = weeks] :
                   shocks \in BuildShocks, weeks \in Horizons}
    /\ fmt = NoFormat
    /\ loop = NoLoop

BuildNext == BuildMatrix

SpecBuild == BuildInit /\ [][BuildNext]_vars

FormatInit ==
    /\ SCENARIOS = SCENARIOS_DEF
    /\ latest = LatestAtStartup
    /\ req = [p \in Requests |-> IdleRequest]
    /\ started = 0
    /\ eng = NoCall
    /\ prevEng = NoCall
    /\ scl = NoScale
    /\ bld = NoBuild
    /\ loop = NoLoop
    /\ fmt \in {[NoFormat EXCEPT !.floats = floats, !.baseline = baseline,
                                 !.shocked = shocked] :
                   floats \in FloatTypes, baseline \in FormatBaselines,
                   shocked \in FormatShocked}

FormatNext == FormatImpact \/ ShowImpact

SpecFormat == FormatInit /\ [][FormatNext]_vars

---------------------------------------------------------------------------
(* Properties *)

\* the request has come back from run_scenario with a result
HasResult(p) ==
    /\ req[p].pc \in {"ran", "restored", "done"}
    /\ req[p].out.raised = ""
    /\ req[p].response.status \in {0, 200}

\* the catalog's own shocks for a key, times a modifier
OwnScaling(key, modifier) ==
    [k \in DOMAIN SCENARIOS_DEF[key].shocks |->
        (SCENARIOS_DEF[key].shocks[k] * modifier) \div 2]

NoRunFailed == \A q \in Requests : req[q].out.raised = ""

\* C1: of two /simulate requests for the same scenario key with different
\* modifiers, handled at the same time with no run failing, each one that
\* has run computed its shocked forecast from the catalog's original shocks
\* times its own modifier only: the shocks its run used are those, and so
\* is the forecast the oracle gave.
C1_OwnScalingOnly ==
    \A p, q \in Requests :
      (/\ NoRunFailed
       /\ req[p].kind = "simulate" /\ req[q].kind = "simulate"
       /\ req[p].scenario_key = req[q].scenario_key
       /\ req[p].modifier # req[q].modifier
       /\ HasResult(p)) =>
          LET own == OwnScaling(req[p].scenario_key, req[p].modifier)
          IN  /\ req[p].out.result.shocks = own
              /\ req[p].out.result.shocked_forecast =
                   get_forecast(build_exog_matrix(LatestAtStartup, own,
                                                  req[p].weeks).exog_matrix,
                                req[p].weeks, req[p].oracle[2]).predicted_mean

\* C2: in every reachable state the stored shocks of every catalog entry
\* equal their statically defined values.
C2_CatalogNeverOverwritten ==
    \A key \in ScenarioKeys : SCENARIOS[key].shocks = SCENARIOS_DEF[key].shocks

\* C3: after any sequence of run_baseline and run_scenario calls, each
\* succeeding or failing, every driver value and the brent_price of
\* engine.latest equal their values at start-up.
C3_BaselineSnapshotUnchanged ==
    \A name \in DOMAIN LatestAtStartup : latest[name] = LatestAtStartup[name]

\* a run that returned, with shocks that move the drivers, after a call
\* that failed
C3_Witness ==
    /\ eng.op = "run_scenario" /\ eng.out.raised = ""
    /\ eng.scenario_key = "global_recession" /\ eng.weeks = MaxWeeks
    /\ prevEng.op = "run_baseline" /\ prevEng.out.raised # ""

\* C4: run_scenario with a key that is not in the catalog, whatever the
\* horizon, raises the unknown-scenario error listing all catalog keys,
\* returns no result and forecasts nothing.
C4_UnknownScenarioRejected ==
    (eng.op = "run_scenario" /\ eng.scenario_key \notin ScenarioKeys) =>
        /\ eng.out.raised = "ValueError"
        /\ eng.out.available = ScenarioKeys
        /\ eng.out.result = NoResult
        /\ eng.out.calls = 0

\* an unknown key with a negative horizon, after one with a positive horizon
C4_Witness ==
    /\ eng.op = "run_scenario" /\ eng.scenario_key = "made_up_key"
    /\ eng.weeks < 0 /\ eng.out.raised = "ValueError"
    /\ prevEng.op = "run_scenario" /\ prevEng.scenario_key = "made_up_key"
    /\ prevEng.weeks > 0 /\ prevEng.out.raised = "ValueError"

\* C5: a run with a horizon of 0 or less, whatever the key, is rejected with
\* the InvalidHorizon error before the oracle is asked for any forecast.
C5_InvalidHorizonRejected ==
    (eng.op = "run_scenario" /\ eng.weeks <= 0) =>
        /\ eng.out.raised = "InvalidHorizon"
        /\ eng.out.calls = 0

\* C6: for a catalog key and a horizon N >= 1, when the oracle is willing
\* to answer every call made of it with one value per requested step,
\* run_scenario returns a baseline and a shocked forecast of length N each
\* and reports weeks = N.
C6_ForecastLengths ==
    (/\ eng.op = "run_scenario" /\ eng.scenario_key \in ScenarioKeys
     /\ eng.weeks >= 1 /\ eng.mode1 = "ok" /\ eng.mode2 \in {"ok", ""}) =>
        /\ eng.out.raised = ""
        /\ Len(eng.out.result.baseline_forecast) = eng.weeks
        /\ Len(eng.out.result.shocked_forecast) = eng.weeks
        /\ eng.out.result.weeks = eng.weeks

C6_Witness ==
    /\ eng.op = "run_scenario" /\ eng.scenario_key = "rate_hike"
    /\ eng.weeks = MaxWeeks /\ eng.mode1 = "ok" /\ eng.mode2 = "ok"
    /\ Len(eng.out.result.shocked_forecast) = MaxWeeks

AllZero(shocks) == \A k \in DOMAIN shocks : shocks[k] = 0

\* C7: when every shock of the scenario a run used is 0 (a scenario scaled
\* by 0.0 included), the shocked exogenous matrix handed to the oracle
\* equals the baseline matrix handed to it; and when the oracle answered
\* both calls in full, the shocked forecast equals the baseline forecast at
\* every week and both impact summaries have difference 0.
C7_ZeroShockIsNoOp ==
    \A p \in Requests :
      (HasResult(p) /\ AllZero(req[p].out.result.shocks)) =>
        LET r     == req[p].out.result
            asked == req[p].out.asked
        IN  /\ Len(asked) = 2
            /\ asked[2] = asked[1]
            /\ req[p].oracle = <<"ok", "ok">> =>
                  /\ Len(r.shocked_forecast) = Len(r.baseline_forecast)
                  /\ \A w \in 1..Len(r.baseline_forecast) :
                        r.shocked_forecast[w] = r.baseline_forecast[w]
                  /\ r.impact_week1.difference = 0
                  /\ r.impact_week12.difference = 0

\* a /simulate request scaled by 0.0 that has run over the longest horizon
\* against an oracle that answered both calls in full, about two matrices
\* of that many rows
C7_Witness ==
    \E p \in Requests :
      /\ HasResult(p) /\ req[p].kind = "simulate" /\ req[p].modifier = 0
      /\ req[p].scenario_key = "opec_cut"
      /\ req[p].oracle = <<"ok", "ok">>
      /\ AllZero(req[p].out.result.shocks)
      /\ Len(req[p].out.asked) = 2
      /\ Len(req[p].out.asked[2]) = MaxWeeks
      /\ Len(req[p].out.result.baseline_forecast) = MaxWeeks

SameCall(a, b) ==
    /\ a.op = "run_scenario" /\ b.op = "run_scenario"
    /\ a.scenario_key = b.scenario_key /\ a.weeks = b.weeks
    /\ a.mode1 = b.mode1 /\ a.mode2 = b.mode2

\* C8: two runs in sequence of the same key with the same horizon, the
\* oracle behaving alike and nothing scaled in between, come to the same
\* thing: the same shocks, forecasts and impact summaries.
C8_RepeatedRunIdentical ==
    SameCall(prevEng, eng) =>
        /\ eng.out.raised = prevEng.out.raised
        /\ eng.out.result = prevEng.out.result

C8_Witness ==
    /\ SameCall(prevEng, eng) /\ eng.scenario_key = "demand_boom"
    /\ eng.weeks = MaxWeeks /\ eng.out.raised = ""
    /\ eng.out.result.shocked_forecast # eng.out.result.baseline_forecast

\* C9: scaling a shock mapping by modifier m gives a mapping with the same
\* driver keys whose every value is m times the input value; modifier 1.0
\* gives a mapping equal to the input and modifier 0.0 gives zeros only.
C9_ScalingMultiplies ==
    scl.applied =>
        /\ DOMAIN scl.output = DOMAIN scl.input.shocks
        /\ \A k \in DOMAIN scl.output :
              2 * scl.output[k] = scl.modifier * scl.input.shocks[k]
        /\ (scl.modifier = 2 => scl.output = scl.input.shocks)
        /\ (scl.modifier = 0 => \A k \in DOMAIN scl.output : scl.output[k] = 0)

\* the interactive loop's scaling by 0.5 of a mapping with an odd value
C9_Witness ==
    /\ scl.applied /\ scl.impl = "run_interactive" /\ scl.modifier = 1
    /\ "gold_return" \in DOMAIN scl.output
    /\ scl.output # scl.input.shocks

\* C10: the scaling computation leaves the mapping it was computed from
\* (the catalog entry's shocks) as it was.
C10_ScalingLeavesInput ==
    scl.applied => scl.input_after = scl.input

\* the handler's scaling by 2.0 of a catalog entry
C10_Witness ==
    /\ scl.applied /\ scl.impl = "run_simulation" /\ scl.modifier = 4
    /\ scl.input = SCENARIOS_DEF["opec_cut"]
    /\ scl.output # scl.input.shocks

\* C11: for every shock mapping and every horizon N >= 1 the matrix builder
\* returns exactly N rows, all alike, each holding exactly the five drivers
\* with the snapshot's value plus the mapping's shock, the shock of a driver
\* the mapping does not name being 0.
C11_MatrixRows ==
    (bld.applied /\ bld.weeks >= 1) =>
        /\ Len(bld.exog_matrix) = bld.weeks
        /\ \A i \in 1..Len(bld.exog_matrix) :
              /\ DOMAIN bld.exog_matrix[i] = Drivers
              /\ bld.exog_matrix[i] = bld.exog_matrix[1]
              /\ \A col \in Drivers :
                    bld.exog_matrix[i][col] =
                        latest[col] + (IF col \in DOMAIN bld.shocks
                                       THEN bld.shocks[col] ELSE 0)

\* a mapping of three drivers only, over the longest horizon, on the
\* snapshot of the other week
C11_Witness ==
    /\ bld.applied /\ bld.weeks = MaxWeeks
    /\ DOMAIN bld.shocks = {"inventory_pct", "vix_diff", "dollar_return"}
    /\ bld.shocks["vix_diff"] # 0
    /\ latest # LatestAtStartup
    /\ Len(bld.exog_matrix) = MaxWeeks

\* the entries of a shock mapping that name one of the five drivers
KnownDrivers(shocks) == [col \in DOMAIN shocks \cap Drivers |-> shocks[col]]

\* C12: names of a shock mapping that are not among the five drivers are
\* ignored without an error: the builder returns a matrix, the one it
\* builds from the mapping with those entries removed.
C12_UnknownDriversIgnored ==
    bld.applied =>
        /\ bld.exog_matrix =
              build_exog_matrix(latest, KnownDrivers(bld.shocks),
                                bld.weeks).exog_matrix
        /\ \A i \in 1..Len(bld.exog_matrix) :
              DOMAIN bld.exog_matrix[i] = Drivers

\* a mapping that shocks 'gold_return', which is no driver
C12_Witness ==
    /\ bld.applied /\ bld.weeks = MaxWeeks
    /\ "gold_return" \in DOMAIN bld.shocks
    /\ bld.shocks["gold_return"] # 0
    /\ Len(bld.exog_matrix) = MaxWeeks

\* C13: for every run of horizon N that returns, the oracle having answered
\* both calls in full, impact_week1 is the summary of the first value of the
\* baseline and shocked forecasts and impact_week12 the summary of their
\* N-th value, whatever N is; for N = 1 the two summaries are the same.
C13_ImpactWeeks ==
    (/\ eng.op = "run_scenario" /\ eng.out.raised = ""
     /\ eng.mode1 = "ok" /\ eng.mode2 = "ok") =>
        LET r == eng.out.result
            N == eng.weeks
        IN  /\ N >= 1
            /\ r.impact_week1 =
                  format_price_change("numpy.float64", r.baseline_forecast[1],
                                      r.shocked_forecast[1])
            /\ r.impact_week12 =
                  format_price_change("numpy.float64", r.baseline_forecast[N],
                                      r.shocked_forecast[N])
            /\ (N = 1 => r.impact_week12 = r.impact_week1)

\* a run over the longest horizon whose two summaries differ, after a run
\* over one week
C13_Witness ==
    /\ eng.op = "run_scenario" /\ eng.out.raised = ""
    /\ eng.mode1 = "ok" /\ eng.mode2 = "ok"
    /\ eng.weeks = MaxWeeks /\ eng.scenario_key = "geopolitical_tension"
    /\ eng.out.result.impact_week12 # eng.out.result.impact_week1
    /\ prevEng.op = "run_scenario" /\ prevEng.out.raised = ""
    /\ prevEng.weeks = 1
    /\ prevEng.out.result.impact_week12.difference # 0

\* C14 as stated: for every pair with a baseline other than 0 the summary's
\* difference is exactly shocked - baseline and its pct_change exactly
\* difference / baseline * 100.
C14_ExactDifference ==
    (fmt.pc # "drawn" /\ fmt.baseline # 0) =>
        /\ fmt.raised = ""
        /\ 10 * fmt.out.difference = fmt.shocked - fmt.baseline
        /\ fmt.out.pct_change.kind = "finite"
        /\ fmt.out.pct_change.value * fmt.baseline =
              (fmt.shocked - fmt.baseline) * 10000

\* distance of two integers
Dist(a, b) == IF a >= b THEN a - b ELSE b - a

\* C14, amended: for every pair with a baseline other than 0 the summary's
\* difference is shocked - baseline rounded to two decimals and its
\* pct_change is (shocked - baseline) / baseline * 100 rounded to two
\* decimals, both taken of the unrounded prices: each is within half a
\* unit of its last place of the exact value, and equal to it when the
\* exact value has no more than two decimals.
C14_RoundedDifference ==
    (fmt.pc # "drawn" /\ fmt.baseline # 0) =>
        LET diff == fmt.shocked - fmt.baseline
        IN  /\ fmt.raised = ""
            /\ 2 * Dist(10 * fmt.out.difference, diff) <= 10
            /\ (diff % 10 = 0 => 10 * fmt.out.difference = diff)
            /\ fmt.out.pct_change.kind = "finite"
            /\ 2 * Dist(fmt.out.pct_change.value * fmt.baseline, diff * 10000)
                  <= Dist(fmt.baseline, 0)

\* the documented example: 75.00 and 71.25 give -3.75 and -5.00 %
C14_Witness ==
    /\ fmt.pc = "formatted"
    /\ fmt.baseline = 75000 /\ fmt.shocked = 71250
    /\ fmt.out.difference = -375
    /\ fmt.out.pct_change = [kind |-> "finite", value |-> -500]

\* C15: when the baseline is exactly zero the formatter raises the
\* DivisionUndefined error or returns a summary whose pct_change is a
\* defined sentinel: never a pct_change of NaN or infinity, never another
\* arithmetic error.
C15_ZeroBaselineDefined ==
    (fmt.pc # "drawn" /\ fmt.baseline = 0) =>
        \/ fmt.raised = "DivisionUndefined"
        \/ /\ fmt.raised = ""
           /\ fmt.out.pct_change.kind \notin {"nan", "inf", "-inf"}

\* C16: the direction shown for an impact, the arrow and sign of the
\* formatter and the colour and sign of the dashboard's card, is that of
\* the unrounded difference shocked - baseline: downward when it is
\* negative and upward when it is positive, also when it rounds to 0.00.
C16_DirectionFromUnrounded ==
    fmt.pc = "shown" =>
        LET diff == fmt.shocked - fmt.baseline
        IN  /\ diff < 0 => /\ fmt.out.arrow = "down" /\ fmt.out.formatted.sign = ""
                           /\ fmt.card.css_class = "metric-value-down"
                           /\ fmt.card.sign = ""
            /\ diff > 0 => /\ fmt.out.arrow = "up" /\ fmt.out.formatted.sign = "+"
                           /\ fmt.card.css_class = "metric-value-up"
                           /\ fmt.card.sign = "+"

\* the request was answered with an error
Rejected(p) == req[p].pc = "done" /\ req[p].response.status # 200

\* what the request asks for is invalid: a key the catalog does not have,
\* or a horizon of 0 or less
InvalidInput(p) ==
    \/ req[p].kind = "direct" /\ req[p].scenario_key \notin ScenarioKeys
    \/ req[p].scenario_key \in ScenarioKeys /\ req[p].weeks <= 0

\* a call of the oracle raised
OracleRaised(p) ==
    \E i \in 1..2 : req[p].oracle[i] \in {"raise", "value_error"}

\* C17: every request answered with an error is classified: an invalid
\* input (unknown scenario key, horizon of 0 or less) is answered 400, a
\* failure of the oracle on a valid input is answered 500.
C17_ErrorClasses ==
    \A p \in Requests :
      Rejected(p) =>
        /\ InvalidInput(p) => req[p].response.status = 400
        /\ (~InvalidInput(p) /\ OracleRaised(p)) => req[p].response.status = 500

\* a call of the oracle returned a forecast of another length than asked
OracleMalformed(p) ==
    /\ req[p].weeks >= 1
    /\ \E i \in 1..2 : req[p].oracle[i] = "short"

\* C18: when a call of the oracle raises or returns a forecast of another
\* length than the horizon asked for, the request fails: the run returns no
\* result and the request is not answered 200 with forecasts, impact
\* summaries or a weekly list made of that output.
C18_OracleFailureIsFatal ==
    \A p \in Requests :
      (/\ req[p].pc \in {"ran", "restored", "done"}
       /\ (OracleRaised(p) \/ OracleMalformed(p))) =>
          /\ req[p].out.raised # ""
          /\ req[p].out.result = NoResult
          /\ req[p].response.status # 200
          /\ req[p].response.weekly_forecasts = <<>>

\* C19: the shocks_applied of a /simulate response are, however the
\* requests interleave, the shock mapping that response's shocked forecast
\* was computed from, and equal the 'shocks' of the run result handed to
\* the explanation generator.
C19_ShocksAppliedAreThoseUsed ==
    \A p \in Requests :
      (/\ req[p].kind = "simulate" /\ req[p].pc = "done"
       /\ req[p].response.status = 200) =>
          /\ req[p].response.shocks_applied = req[p].response.explained_shocks
          /\ req[p].out.result.shocked_forecast =
                get_forecast(
                    build_exog_matrix(LatestAtStartup,
                                      req[p].response.shocks_applied,
                                      req[p].weeks).exog_matrix,
                    req[p].weeks, req[p].oracle[2]).predicted_mean

\* C20: when /simulate requests, however many and however interleaved,
\* have all been answered 200 and none is in flight, the shocks of every
\* catalog entry equal their statically defined values.
C20_RestoredWhenQuiescent ==
    (/\ \A p \in Requests : req[p].pc \in {"idle", "done"}
     /\ \A p \in Requests :
           req[p].pc = "done" =>
              req[p].kind = "simulate" /\ req[p].response.status = 200) =>
        \A key \in ScenarioKeys :
            SCENARIOS[key].shocks = SCENARIOS_DEF[key].shocks

\* C28: the formatter shows the upward arrow and a '+' sign exactly when
\* shocked - baseline > 0; a difference of zero is shown with the downward
\* arrow and no sign.
C28_UpOnlyWhenPositive ==
    (fmt.pc # "drawn" /\ fmt.raised = "") =>
        LET up == fmt.shocked - fmt.baseline > 0
        IN  /\ (fmt.out.arrow = "up") <=> up
            /\ (fmt.out.arrow = "down") <=> ~up
            /\ (fmt.out.formatted.sign = "+") <=> up
            /\ (fmt.out.formatted.sign = "") <=> ~up
            /\ fmt.out.formatted.arrow = fmt.out.arrow

\* equal prices, as a zero-shock run gives them
C28_Witness ==
    /\ fmt.pc = "formatted" /\ fmt.baseline = 75000 /\ fmt.shocked = 75000
    /\ fmt.out.arrow = "down" /\ fmt.out.formatted.sign = ""
    /\ fmt.out.difference = 0

\* C23: a /simulate-direct request for a catalog key that is answered 200
\* computed its shocked forecast from the catalog's original, unscaled
\* shocks of that key, however it interleaves with /simulate requests for
\* the same key.
C23_DirectUsesOriginalShocks ==
    \A p \in Requests :
      (/\ req[p].kind = "direct" /\ req[p].pc = "done"
       /\ req[p].response.status = 200) =>
          LET own == SCENARIOS_DEF[req[p].scenario_key].shocks
          IN  /\ req[p].out.result.shocks = own
              /\ req[p].out.result.shocked_forecast =
                    get_forecast(build_exog_matrix(LatestAtStartup, own,
                                                   req[p].weeks).exog_matrix,
                                 req[p].weeks, req[p].oracle[2]).predicted_mean

\* C24 as stated: a run with an unknown key asks the oracle nothing, a run
\* with a catalog key asks it exactly twice.
C24_ExactlyTwoCalls ==
    eng.op = "run_scenario" =>
        /\ eng.scenario_key \notin ScenarioKeys => eng.out.calls = 0
        /\ eng.scenario_key \in ScenarioKeys => eng.out.calls = 2

\* the matrix of forecast_weeks rows of the snapshot's drivers plus shocks
ExogOf(shocks, forecast_weeks) ==
    [i \in 1..forecast_weeks |->
        [col \in Drivers |-> LatestAtStartup[col] + shocks[col]]]

\* C24, amended: the key is checked before anything is forecast, so a run
\* with an unknown key asks the oracle nothing; a run with a catalog key
\* asks it first about the zero-shock matrix and, only when that call
\* answered, once more about the shocked matrix: twice when the first call
\* answers, once when it raises, never again after a failure.
C24_KeyCheckThenTwoCalls ==
    eng.op = "run_scenario" =>
        LET asked == eng.out.asked
        IN  /\ Len(asked) = eng.out.calls
            /\ eng.scenario_key \notin ScenarioKeys => asked = <<>>
            /\ eng.scenario_key \in ScenarioKeys =>
                  /\ Len(asked) = (IF eng.mode1 = "ok" THEN 2 ELSE 1)
                  /\ asked[1] = ExogOf([col \in Drivers |-> 0], eng.weeks)
                  /\ Len(asked) = 2 =>
                        asked[2] = ExogOf(SCENARIOS_DEF[eng.scenario_key].shocks,
                                          eng.weeks)
                  /\ eng.mode1 # "ok" => eng.out.raised # ""
                  /\ (eng.mode1 = "ok" /\ eng.mode2 # "ok") => eng.out.raised # ""

\* a run whose first oracle call raised, after a run whose second one did
C24_Witness ==
    /\ eng.op = "run_scenario" /\ eng.scenario_key = "rate_hike"
    /\ eng.weeks = MaxWeeks /\ eng.mode1 = "raise" /\ eng.out.calls = 1
    /\ prevEng.op = "run_scenario" /\ prevEng.scenario_key = "rate_hike"
    /\ prevEng.mode1 = "ok" /\ prevEng.mode2 = "value_error"
    /\ prevEng.out.calls = 2 /\ prevEng.out.asked[2] # prevEng.out.asked[1]

\* the /simulate request has parsed its query
Parsed(p) == req[p].kind = "simulate" /\ req[p].scenario_key # ""

\* C26: the horizon of a /simulate request is the forecast_weeks of the
\* parsed query whenever the parsed query has that field, which the dict of
\* the parse-failure fallback always has, with value 12, and the
\* forecast_weeks of the request itself only when it has not; when the
\* request is answered, the oracle having answered both calls in full, the
\* weekly_forecasts of the response has as many entries as that horizon.
C26_HorizonChoice ==
    \A p \in Requests :
      Parsed(p) =>
        /\ req[p].fallback => req[p].parsed_weeks = <<12>>
        /\ req[p].weeks = (IF req[p].parsed_weeks # <<>>
                           THEN req[p].parsed_weeks[1]
                           ELSE req[p].request_weeks)
        /\ (/\ req[p].pc = "done" /\ req[p].response.status = 200
            /\ req[p].oracle = <<"ok", "ok">>) =>
               Len(req[p].response.weekly_forecasts) = req[p].weeks

\* a request answered over its own default horizon, the parsed query
\* having none
C26_Witness ==
    \E p \in Requests :
      /\ Parsed(p) /\ req[p].pc = "done" /\ req[p].response.status = 200
      /\ req[p].oracle = <<"ok", "ok">>
      /\ req[p].parsed_weeks = <<>> /\ req[p].request_weeks = 12
      /\ Len(req[p].response.weekly_forecasts) = 12

---------------------------------------------------------------------------
(* The catalog entry around a natural-language run *)

\* the run of the request's scenario raised: the handler was past the
\* override (app.py 145) when it failed
RunRaised(p) ==
    /\ req[p].kind = "simulate"
    /\ Rejected(p)
    /\ req[p].oracle # <<"", "">>

\* the same of the loop's iteration (test.py 117-121)
LoopRunRaised == loop.pc = "crashed" /\ loop.oracle # <<"", "">>

\* the elements of a list
Range(seq) == {seq[i] : i \in DOMAIN seq}

\* C25: whenever parse_user_query returns, the scenario_key it returns is
\* one of the five catalog keys: a key the LLM left out or took from outside
\* the catalog is replaced by 'geopolitical_tension' with confidence 'low',
\* as is all of a reply that is no JSON, and no handler indexes the catalog
\* with a key it does not have
C25_ParsedKeyInCatalog ==
    /\ AVAILABLE_SCENARIOS = DOMAIN SCENARIOS
    /\ \A p \in Requests :
          req[p].kind = "simulate" =>
             /\ req[p].out.raised # "KeyError"
             /\ req[p].out.raised \in {"APIError", "AttributeError"}
                   \/ req[p].scenario_key \in AVAILABLE_SCENARIOS
             /\ req[p].fallback => req[p].scenario_key = "geopolitical_tension"
    /\ "parse" \in Range(loop.events) =>
          LET given == Get(loop.reply.fields, "scenario_key", "")
          IN  \/ loop.out.raised \in {"APIError", "AttributeError"}
              \/ /\ "scenario_key" \in DOMAIN loop.parsed
                 /\ loop.parsed["scenario_key"] \in AVAILABLE_SCENARIOS
                 /\ loop.reply.kind = "text" => loop.parsed = Fallback
                 /\ loop.reply.kind # "text" /\ given \in AVAILABLE_SCENARIOS
                       => loop.parsed = loop.reply.fields
                 /\ loop.reply.kind # "text" /\ given \notin AVAILABLE_SCENARIOS
                       => /\ loop.parsed["scenario_key"] = "geopolitical_tension"
                          /\ loop.parsed["confidence"] = "low"
                 /\ loop.out.raised = "KeyError"
                       => {"confidence", "reasoning"} \ DOMAIN loop.parsed # {}

\* the LLM named a key outside the catalog with confidence 'high'; the loop
\* asked for confirmation and ran 'geopolitical_tension'
C25_Witness ==
    /\ loop.reply.kind = "json_object"
    /\ Get(loop.reply.fields, "scenario_key", "") = "made_up_key"
    /\ Get(loop.reply.fields, "confidence", "") = "high"
    /\ loop.parsed["scenario_key"] = "geopolitical_tension"
    /\ loop.confirm # <<>>
    /\ loop.out.raised = ""
    /\ loop.out.result.scenario_key = "geopolitical_tension"

\* lines that are 'y', 'quit', 'list' or nothing once the blanks around
\* them are dropped and capitals made small
Affirmative == {"y", "Y", " y "}
QuitLines   == {"quit", "QUIT", " Quit "}
ListLines   == {"list", " List"}
EmptyLines  == {"", "   "}

\* the parse of this iteration came with confidence 'low'
LowConfidence ==
    /\ "parse" \in Range(loop.events)
    /\ Get(loop.parsed, "confidence", "") = "low"

\* the iteration overrode the catalog entry or ran the scenario
Proceeded == {"override", "run"} \cap Range(loop.events) # {}

\* C27 as stated: a parse of confidence 'low' leads to an override or a run
\* only when the user answers exactly 'y'; empty input, 'list' and 'quit'
\* invoke neither the parser nor the run, and 'quit' ends the loop
C27_ExactlyY ==
    /\ LowConfidence /\ Proceeded => loop.confirm = <<"y">>
    /\ loop.pc # "off" /\ loop.user_input \in {"", "list", "quit"}
          => loop.events = <<>>
    /\ loop.user_input = "quit" => loop.pc = "ended"

\* C27: a parse of confidence 'low' leads to an override or a run exactly
\* when the user's answer is 'y' once trimmed and lower-cased ('Y' and
\* ' y ' too), any other answer leading back to the prompt; a line that is
\* empty, 'list' or 'quit' once trimmed and lower-cased invokes neither the
\* parser nor the run, and 'quit' ends the loop
C27_ConfirmedAfterTrimAndLower ==
    /\ LowConfidence /\ Proceeded
          => loop.confirm # <<>> /\ loop.confirm[1] \in Affirmative
    /\ "run" \in Range(loop.events) => "override" \in Range(loop.events)
    /\ loop.confirm # <<>> =>
          /\ LowConfidence
          /\ loop.confirm[1] \notin Affirmative
                => loop.pc = "prompt" /\ loop.events = <<"parse">>
          /\ loop.confirm[1] \in Affirmative
                => ~(loop.pc = "prompt" /\ loop.events = <<"parse">>)
    /\ loop.pc # "off" /\ loop.user_input \in EmptyLines \cup ListLines
          => loop.pc = "prompt" /\ loop.events = <<>>
    /\ loop.user_input \in QuitLines
          => loop.pc = "ended" /\ loop.events = <<>>

\* a parse of confidence 'low' was confirmed with 'Y' and the scenario ran
C27_Witness ==
    /\ LowConfidence
    /\ loop.confirm = <<"Y">>
    /\ loop.events = <<"parse", "override", "run">>
    /\ loop.out.raised = ""

\* one was answered 'yes' and the loop is back at its prompt
C27_WitnessRefused ==
    /\ LowConfidence
    /\ loop.confirm = <<"yes">>
    /\ loop.pc = "prompt"
    /\ ~Proceeded

\* C21: when the scenario run raises inside a /simulate request or an
\* iteration of the interactive loop, the catalog's shocks for the key are
\* what they were before the request
C21_UnchangedOnError ==
    /\ \A p \in Requests :
          RunRaised(p) =>
             SCENARIOS[req[p].scenario_key].shocks = req[p].catalog_before
    /\ LoopRunRaised =>
          SCENARIOS[loop.parsed["scenario_key"]].shocks = loop.catalog_before

\* the request ran its scenario and put the saved shocks back
RestoredRequest(p) ==
    /\ req[p].kind = "simulate"
    /\ \/ req[p].pc = "restored"
       \/ req[p].pc = "done" /\ req[p].response.status = 200

\* the loop's iteration did
RestoredIteration ==
    /\ loop.pc \in {"report", "prompt"}
    /\ Len(loop.events) >= 4
    /\ loop.events[4] = "restore"

\* C22: with no other request in flight, a /simulate request or an
\* iteration of the loop that completes without error leaves the catalog's
\* shocks for its key equal to what they were before it, whatever the
\* modifier
C22_RestoredAfterSuccess ==
    /\ \A p \in Requests :
          RestoredRequest(p) =>
             SCENARIOS[req[p].scenario_key].shocks = req[p].catalog_before
    /\ RestoredIteration =>
          SCENARIOS[loop.parsed["scenario_key"]].shocks = loop.catalog_before

\* an iteration of the loop that doubled the shocks of an entry which has
\* some has put them back
C22_Witness ==
    /\ RestoredIteration
    /\ Get(loop.parsed, "magnitude_modifier", 2) = 4
    /\ loop.catalog_before # zero_shocks
    /\ loop.out.result.shocks # loop.catalog_before
    /\ SCENARIOS[loop.parsed["scenario_key"]].shocks = loop.catalog_before

\* a /simulate request that halved them has
C22_WitnessRequest ==
    \E p \in Requests :
       /\ RestoredRequest(p)
       /\ req[p].pc = "done"
       /\ req[p].modifier = 1
       /\ req[p].modified_shocks # req[p].catalog_before
       /\ SCENARIOS[req[p].scenario_key].shocks = req[p].catalog_before

===========================================================================
